---------------------------- MODULE Spec2Model ----------------------------
(***************************************************************************)
(* A model of the comment pipeline: the paging loop of the fetch stage     *)
(* (1_get_yt_comments.py), the enrichment stage                            *)
(* (2_process_yt_comments.py) and the analysis stage                       *)
(* (3_comments_analysis.py).                                               *)
(*                                                                         *)
(* A Python str is modelled as a sequence of one-character strings, so     *)
(* that lower(), strip(), replace(), split(), len() and slicing are        *)
(* computed character by character.                                        *)
(***************************************************************************)
EXTENDS Integers, Sequences, FiniteSets, TLC

VARIABLES
    \* the pipeline: where the run is, the raw comments file, the
    \* processed-comments file, the loaded frame, the report file, the
    \* exception that ended the run, what was printed
    pc, raw, processed, comments_df, out_file, error, stdout,
    \* the locals of analyse_themes
    idx, theme_counts, theme_comments, theme_sentiments,
    \* contains_keywords applied to one input
    m_pc, m_text, m_keywords, m_result,
    \* analyse_most_liked_comments applied to one input
    t_pc, t_df, t_top_n, t_out,
    \* the rendering of one theme comment entry
    c_pc, c_text, c_service, c_country,
    \* get_video_comments: where the call is, its argument and locals, the
    \* requests it has issued, the responses it has received, what it
    \* returned and printed
    f_pc, f_max_results, f_comments, f_next_page_token,
    f_requests, f_responses, f_result, f_stdout

pipeVars == <<pc, raw, processed, comments_df, out_file, error, stdout,
              idx, theme_counts, theme_comments, theme_sentiments>>

matchVars == <<m_pc, m_text, m_keywords, m_result>>

topVars == <<t_pc, t_df, t_top_n, t_out>>

truncVars == <<c_pc, c_text, c_service, c_country>>

fetchVars == <<f_pc, f_max_results, f_comments, f_next_page_token,
               f_requests, f_responses, f_result, f_stdout>>

\* what a step of the pipeline leaves alone
otherVars == <<matchVars, topVars, truncVars, fetchVars>>

vars == <<pipeVars, matchVars, topVars, truncVars, fetchVars>>

-----------------------------------------------------------------------------
(* Python str operations                                                   *)

Range(s) == {s[i] : i \in 1..Len(s)}

UpperLetters ==
    <<"A","B","C","D","E","F","G","H","I","J","K","L","M",
      "N","O","P","Q","R","S","T","U","V","W","X","Y","Z">>

LowerLetters ==
    <<"a","b","c","d","e","f","g","h","i","j","k","l","m",
      "n","o","p","q","r","s","t","u","v","w","x","y","z">>

\* the characters str.split() and str.strip() treat as whitespace
Whitespace == {" ", "\n", "\t", "\r"}

LowerOf ==
    [c \in Range(UpperLetters) |->
        LowerLetters[CHOOSE k \in 1..Len(UpperLetters) : UpperLetters[k] = c]]

LowerChar(c) == IF c \in DOMAIN LowerOf THEN LowerOf[c] ELSE c

\* str.lower()
str_lower(s) == [i \in 1..Len(s) |-> LowerChar(s[i])]

\* str.replace(old, new) for a one-character old, over s[lo..hi]; the
\* range is halved so that the evaluation stays shallow on long texts
RECURSIVE ReplaceIn(_, _, _, _, _)
ReplaceIn(s, lo, hi, old, new) ==
    IF lo > hi THEN <<>>
    ELSE IF lo = hi THEN (IF s[lo] = old THEN new ELSE <<s[lo]>>)
    ELSE LET mid == (lo + hi) \div 2
         IN  ReplaceIn(s, lo, mid, old, new) \o ReplaceIn(s, mid + 1, hi, old, new)

str_replace(s, old, new) ==
    IF \A i \in 1..Len(s) : s[i] # old THEN s ELSE ReplaceIn(s, 1, Len(s), old, new)

\* str.split() with no separator: runs of whitespace separate the words and
\* no empty word is produced.  The word being read starts at position from.
RECURSIVE SplitFrom(_, _, _)
SplitFrom(s, from, i) ==
    IF i > Len(s)
    THEN (IF from < i THEN <<SubSeq(s, from, i - 1)>> ELSE <<>>)
    ELSE IF s[i] \in Whitespace
         THEN (IF from < i THEN <<SubSeq(s, from, i - 1)>> ELSE <<>>)
              \o SplitFrom(s, i + 1, i + 1)
         ELSE SplitFrom(s, from, i + 1)

str_split(s) == SplitFrom(s, 1, 1)

\* str.strip()
RECURSIVE str_lstrip(_)
str_lstrip(s) ==
    IF s # <<>> /\ Head(s) \in Whitespace THEN str_lstrip(Tail(s)) ELSE s

RECURSIVE str_rstrip(_)
str_rstrip(s) ==
    IF s # <<>> /\ s[Len(s)] \in Whitespace
    THEN str_rstrip(SubSeq(s, 1, Len(s) - 1)) ELSE s

str_strip(s) == str_rstrip(str_lstrip(s))

-----------------------------------------------------------------------------
(* The tokenizer of analyse_themes.contains_keywords                       *)

\* the punctuation characters of the loop at line 180, in its order
PUNCT == <<".", ",", "!", "?", ";", ":", "(", ")", "[", "]", "{", "}">>

\* lines 180-181: for punct in '...': text_lower = text_lower.replace(...)
RECURSIVE SpacePunct(_, _)
SpacePunct(s, k) ==
    IF k > Len(PUNCT) THEN s
    ELSE SpacePunct(str_replace(s, PUNCT[k], <<" ", PUNCT[k], " ">>), k + 1)

\* lines 177-184: the list `words`
Words(text) == str_split(SpacePunct(str_lower(text), 1))

\* the sequences over S of length at most n
RECURSIVE SeqsUpTo(_, _)
SeqsUpTo(S, n) ==
    IF n = 0 THEN {<<>>}
    ELSE LET shorter == SeqsUpTo(S, n - 1)
         IN  shorter \cup {Append(s, c) : s \in {t \in shorter : Len(t) = n - 1}, c \in S}

kw_id == <<"i","d">>

-----------------------------------------------------------------------------
(* THEMES (lines 9-52).  Five of the 24 themes are kept, in declaration    *)
(* order, with their ASCII keywords: two service themes and three country  *)
(* themes, one of them with a two-word keyword.                            *)

theme_customer_identification ==
    <<"C","u","s","t","o","m","e","r"," ","I","d","e","n","t","i","f","i","c","a","t","i","o","n">>
theme_customer_service ==
    <<"c","u","s","t","o","m","e","r","_","s","e","r","v","i","c","e">>
theme_country_sudan ==
    <<"c","o","u","n","t","r","y","_","s","u","d","a","n">>
theme_country_yemen ==
    <<"c","o","u","n","t","r","y","_","y","e","m","e","n">>
theme_country_saudi_arabia ==
    <<"c","o","u","n","t","r","y","_","s","a","u","d","i","_","a","r","a","b","i","a">>

\* the dict in insertion order: a sequence of (key, value) items
THEMES ==
    << [theme |-> theme_customer_identification,
        keywords |-> << <<"p","a","s","s","p","o","r","t">>, kw_id,
                        <<"i","d","e","n","t","i","f","i","c","a","t","i","o","n">> >>],
       [theme |-> theme_customer_service,
        keywords |-> << <<"s","u","p","p","o","r","t">>,
                        <<"c","u","s","t","o","m","e","r"," ","s","e","r","v","i","c","e">>,
                        <<"h","e","l","p">>, <<"c","o","n","t","a","c","t">> >>],
       [theme |-> theme_country_sudan,
        keywords |-> << <<"s","u","d","a","n">> >>],
       [theme |-> theme_country_yemen,
        keywords |-> << <<"y","e","m","e","n">> >>],
       [theme |-> theme_country_saudi_arabia,
        keywords |-> << <<"s","a","u","d","i">>,
                        <<"s","a","u","d","i"," ","a","r","a","b","i","a">> >>] >>

ThemeKeys == {THEMES[k].theme : k \in 1..Len(THEMES)}

\* str.startswith
str_startswith(s, prefix) ==
    Len(s) >= Len(prefix) /\ SubSeq(s, 1, Len(prefix)) = prefix

country_prefix == <<"c","o","u","n","t","r","y","_">>

\* the four keys of a theme's sentiment tally (line 171)
question == <<"q","u","e","s","t","i","o","n">>
positive_affirmation ==
    <<"p","o","s","i","t","i","v","e"," ","a","f","f","i","r","m","a","t","i","o","n">>
neutral_affirmation ==
    <<"n","e","u","t","r","a","l"," ","a","f","f","i","r","m","a","t","i","o","n">>
negative_affirmation ==
    <<"n","e","g","a","t","i","v","e"," ","a","f","f","i","r","m","a","t","i","o","n">>

SENTIMENTS ==
    {question, positive_affirmation, neutral_affirmation, negative_affirmation}

-----------------------------------------------------------------------------
(* The enrichment stage, 2_process_yt_comments.py.  A reply of the         *)
(* language model is an input: [ok |-> FALSE] when the call raises,        *)
(* [ok |-> TRUE, content |-> text] when it answers.                        *)

\* lines 12-25
translate_and_clean_comment(comment, reply) ==
    IF reply.ok THEN str_strip(reply.content) ELSE comment

\* lines 27-40
classify_sentiment(comment, reply) ==
    IF reply.ok THEN str_lower(str_strip(reply.content)) ELSE neutral_affirmation

max_comments == 1000

Min(a, b) == IF a < b THEN a ELSE b

\* lines 49-55 and 63-65: the records of the output file, given the replies
\* to the translation calls and to the classification calls
process_comments(comments_data, tr, cl) ==
    LET df == SubSeq(comments_data, 1, Min(Len(comments_data), max_comments))
        cleaned(i) == translate_and_clean_comment(df[i].text, tr[i])
    IN  [i \in 1..Len(df) |->
            [text |-> df[i].text,
             likes |-> df[i].likes,
             cleaned_text |-> cleaned(i),
             sentiment |-> classify_sentiment(cleaned(i), cl[i])]]

-----------------------------------------------------------------------------
(* Inputs of the pipeline                                                  *)

MaxRecords == 2

text_need_id == <<"N","e","e","d"," ","m","y"," ","I","D"," ","p","l","e","a","s","e">>
text_video == <<"v","i","d","e","o"," ","f","r","o","m"," ","S","u","d","a","n",","," ","Y","e","m","e","n","!">>
text_yemen == <<"y","e","m","e","n","\n","s","a","u","d","i"," ","a","r","a","b","i","a"," ","s","u","p","p","o","r","t">>
text_jawaz == <<"j","a","w","a","z">>

\* comments as the fetching stage saves them (text and likes; video_id,
\* author and published_at take no part in the analysis)
RawPool ==
    { [text |-> text_need_id, likes |-> 2],
      [text |-> text_video, likes |-> 0],
      [text |-> text_yemen, likes |-> 2],
      [text |-> text_jawaz, likes |-> 1] }

\* a call of the language model that raises
FailedReply == [ok |-> FALSE, content |-> <<>>]

\* what the language model answers to a translation request
TranslationReply(text) ==
    IF text = text_jawaz
    THEN [ok |-> TRUE, content |-> <<" ","P","a","s","s","p","o","r","t",".","\n">>]
    ELSE [ok |-> TRUE, content |-> text]


\* what the language model answers to a classification request
ClassificationReplies ==
    { [ok |-> TRUE, content |-> <<"Q","u","e","s","t","i","o","n">>],
      [ok |-> TRUE, content |-> <<"P","o","s","i","t","i","v","e"," ","a","f","f","i","r","m","a","t","i","o","n">>],
      [ok |-> TRUE, content |-> <<" ","N","e","g","a","t","i","v","e"," ","a","f","f","i","r","m","a","t","i","o","n","\n">>],
      [ok |-> TRUE, content |-> <<"M","i","x","e","d">>],
      FailedReply }

NoFile == [exists |-> FALSE, content |-> <<>>]

NoCounters == [k \in {} |-> 0]

InitPipe ==
    /\ \/ /\ pc = "stage2"
          /\ raw \in SeqsUpTo(RawPool, MaxRecords)
          /\ processed = NoFile
       \* a processed-comments file holding {"comments": []} is already there
       \/ /\ pc = "stage3"
          /\ raw = <<>>
          /\ processed = [exists |-> TRUE, content |-> <<>>]
    /\ comments_df = [none |-> TRUE, rows |-> <<>>]
    /\ out_file = NoFile
    /\ error = "none"
    /\ stdout = <<>>
    /\ idx = 0
    /\ theme_counts = NoCounters
    /\ theme_comments = NoCounters
    /\ theme_sentiments = NoCounters

IdlePipe ==
    /\ pc = "idle"
    /\ raw = <<>>
    /\ processed = NoFile
    /\ comments_df = [none |-> TRUE, rows |-> <<>>]
    /\ out_file = NoFile
    /\ error = "none"
    /\ stdout = <<>>
    /\ idx = 0
    /\ theme_counts = NoCounters
    /\ theme_comments = NoCounters
    /\ theme_sentiments = NoCounters

-----------------------------------------------------------------------------
(* analyse_themes.contains_keywords                                        *)

\* line 195
combined_text(comment) == comment.text \o <<" ">> \o comment.cleaned_text

\* the combined texts the pipeline's inputs can produce, and their words,
\* computed once
PipelineTexts ==
    UNION {{combined_text([text |-> r.text,
                           cleaned_text |-> translate_and_clean_comment(r.text, reply)]) :
               reply \in {TranslationReply(r.text), FailedReply}} : r \in RawPool}

WordsOfPipelineTexts == [t \in PipelineTexts |-> Words(t)]

\* substring test in place of list membership
contains_keywords_substring(text, keywords) ==
    LET t == str_lower(text)
    IN  \E k \in 1..Len(keywords) :
            \E i \in 1..(Len(t) + 1) : \E j \in (i - 1)..Len(t) :
                SubSeq(t, i, j) = str_lower(keywords[k])

\* lines 175-191
contains_keywords(text, keywords) ==
    LET words == IF text \in DOMAIN WordsOfPipelineTexts
                 THEN WordsOfPipelineTexts[text] ELSE Words(text)
    IN  \E k \in 1..Len(keywords) :
            str_lower(keywords[k]) \in Range(words)

-----------------------------------------------------------------------------
(* The analysis stage, 3_comments_analysis.py.  A frame is                 *)
(* [none |-> BOOLEAN, rows |-> sequence of records]; row i carries the     *)
(* index label i - 1.  A section function returns [section |-> "none"]     *)
(* for None.  Percentages and the mean of likes are left out of the        *)
(* rendered sections.                                                      *)

None == [section |-> "none"]

df_empty(df) == df.rows = <<>>

\* dict.get / Series.get with a default
Get(f, k, default) == IF k \in DOMAIN f THEN f[k] ELSE default

\* Series.value_counts()
value_counts(rows) ==
    [s \in {rows[i].sentiment : i \in 1..Len(rows)} |->
        Cardinality({i \in 1..Len(rows) : rows[i].sentiment = s})]

\* lines 54-91
load_latest_processed_comments(file) ==
    IF file.exists THEN [none |-> FALSE, rows |-> file.content]
    ELSE [none |-> TRUE, rows |-> <<>>]

\* lines 132-161
analyse_sentiment_distribution(df) ==
    IF df.none \/ df_empty(df) THEN None
    ELSE LET sentiment_counts == value_counts(df.rows)
         IN  [section |-> "sentiment",
              total_comments |-> Len(df.rows),
              question |-> Get(sentiment_counts, question, 0),
              positive |-> Get(sentiment_counts, positive_affirmation, 0),
              neutral |-> Get(sentiment_counts, neutral_affirmation, 0),
              negative |-> Get(sentiment_counts, negative_affirmation, 0)]

\* the positions of a sequence ordered by descending key, equal keys in
\* their original order: sorted(..., reverse=True), list.sort(reverse=True)
\* and nlargest(keep='first') all order this way
StableDescOrder(keys) ==
    LET n == Len(keys)
        rank(i) == 1 + Cardinality({j \in 1..n :
                        keys[j] > keys[i] \/ (keys[j] = keys[i] /\ j < i)})
    IN  [p \in 1..n |-> CHOOSE i \in 1..n : rank(i) = p]

\* ascending in place of descending
nlargest_ascending(rows, n) ==
    LET order == StableDescOrder([i \in 1..Len(rows) |-> 0 - rows[i].likes])
    IN  SubSeq(order, 1, Min(IF n < 0 THEN 0 ELSE n, Len(rows)))

\* line 101, df.nlargest(top_n, 'likes'): the positions of the selected rows
nlargest(rows, n) ==
    LET order == StableDescOrder([i \in 1..Len(rows) |-> rows[i].likes])
    IN  SubSeq(order, 1, Min(IF n < 0 THEN 0 ELSE n, Len(rows)))

\* the rank printed as the ID
top_entry_rank_id(rows, i, pos) ==
    [rank |-> i, id |-> i, comment |-> rows[pos]]

\* lines 110-125: entry number i, for the row at position pos (label pos - 1)
top_entry(rows, i, pos) ==
    [rank |-> i, id |-> (pos - 1) + 1, comment |-> rows[pos]]

DEFAULT_TOP_N == 10

\* lines 95-130
analyse_most_liked_comments(df, top_n) ==
    IF df.none \/ df_empty(df) THEN None
    ELSE LET top_liked == nlargest(df.rows, top_n)
         IN  [section |-> "top_liked",
              entries |-> [i \in 1..Len(top_liked) |->
                              top_entry(df.rows, i, top_liked[i])]]

-----------------------------------------------------------------------------
(* analyse_themes                                                          *)

\* lines 169-172
InitialThemeState ==
    [counts |-> [t \in ThemeKeys |-> 0],
     comments |-> [t \in ThemeKeys |-> <<>>],
     sentiments |-> [t \in ThemeKeys |-> [s \in SENTIMENTS |-> 0]],
     raised |-> FALSE]

\* the scan of the themes ends at the first theme that matches
RECURSIVE ThemesOfComment_first_match(_, _, _)
ThemesOfComment_first_match(st, comment, k) ==
    IF k > Len(THEMES) THEN st
    ELSE LET theme == THEMES[k].theme
             text == combined_text(comment)
         IN  IF contains_keywords(text, THEMES[k].keywords)
             THEN LET counted ==
                        [st EXCEPT !.counts[theme] = @ + 1,
                                   !.comments[theme] =
                                       Append(@, [text |-> comment.text,
                                                  likes |-> comment.likes])]
                  IN  IF comment.sentiment \in DOMAIN st.sentiments[theme]
                      THEN [counted EXCEPT
                               !.sentiments[theme][comment.sentiment] = @ + 1]
                      ELSE [counted EXCEPT !.raised = TRUE]
             ELSE ThemesOfComment_first_match(st, comment, k + 1)

\* lines 198-206 from theme number k on, for one comment; a sentiment that
\* is no key of the tally raises KeyError at line 206, after lines 200-204
RECURSIVE ThemesOfComment(_, _, _)
ThemesOfComment(st, comment, k) ==
    IF k > Len(THEMES) THEN st
    ELSE LET theme == THEMES[k].theme
             text == combined_text(comment)
         IN  IF contains_keywords(text, THEMES[k].keywords)
             THEN LET counted ==
                        [st EXCEPT !.counts[theme] = @ + 1,
                                   !.comments[theme] =
                                       Append(@, [text |-> comment.text,
                                                  likes |-> comment.likes])]
                  IN  IF comment.sentiment \in DOMAIN st.sentiments[theme]
                      THEN ThemesOfComment(
                               [counted EXCEPT
                                   !.sentiments[theme][comment.sentiment] = @ + 1],
                               comment, k + 1)
                      ELSE [counted EXCEPT !.raised = TRUE]
             ELSE ThemesOfComment(st, comment, k + 1)

TRUNCATE_OVER == 200
TRUNCATE_KEEP == 197

ellipsis == <<".", ".", ".">>

\* truncation without the ellipsis budget
clean_service_text_cut200(text) ==
    LET clean_text == str_replace(text, "\n", <<" ">>)
    IN  IF Len(clean_text) > TRUNCATE_OVER
        THEN SubSeq(clean_text, 1, TRUNCATE_OVER) \o ellipsis
        ELSE clean_text

\* lines 249-251
clean_service_text(text) ==
    LET clean_text == str_replace(text, "\n", <<" ">>)
    IN  IF Len(clean_text) > TRUNCATE_OVER
        THEN SubSeq(clean_text, 1, TRUNCATE_KEEP) \o ellipsis
        ELSE clean_text

\* lines 299-301
clean_country_text(text) ==
    LET clean_text == str_replace(text, "\n", <<" ">>)
    IN  IF Len(clean_text) > TRUNCATE_OVER
        THEN SubSeq(clean_text, 1, TRUNCATE_KEEP) \o ellipsis
        ELSE clean_text

\* sorted(comments, key=lambda x: x['likes'], reverse=True)
sorted_by_likes(comments) ==
    LET order == StableDescOrder([i \in 1..Len(comments) |-> comments[i].likes])
    IN  [p \in 1..Len(comments) |-> comments[order[p]]]

RECURSIVE Flatten(_)
Flatten(ss) == IF ss = <<>> THEN <<>> ELSE Head(ss) \o Flatten(Tail(ss))

RECURSIVE SumSeq(_)
SumSeq(s) == IF s = <<>> THEN 0 ELSE Head(s) + SumSeq(Tail(s))

\* lines 213-214
theme_keys == [k \in 1..Len(THEMES) |-> THEMES[k].theme]

IsCountryTheme(theme) == str_startswith(theme, country_prefix)
IsServiceTheme(theme) == ~str_startswith(theme, country_prefix)

service_themes == SelectSeq(theme_keys, IsServiceTheme)

\* lines 225-253: one service theme
service_entry(st, theme) ==
    LET count == st.counts[theme]
    IN  [theme |-> theme,
         count |-> count,
         sentiment_str |-> IF count > 0 THEN <<st.sentiments[theme]>> ELSE <<>>,
         comments |->
             IF count > 0
             THEN LET sorted_comments == sorted_by_likes(st.comments[theme])
                  IN  [p \in 1..Len(sorted_comments) |->
                          clean_service_text(sorted_comments[p].text)]
             ELSE <<>>]

\* every country theme is kept and the sort is ascending
non_zero_countries_unfiltered(counts) ==
    LET HasMentions(theme) == IsCountryTheme(theme)
        items == SelectSeq(theme_keys, HasMentions)
        order == StableDescOrder([i \in 1..Len(items) |-> 0 - counts[items[i]]])
    IN  [p \in 1..Len(items) |->
            [theme |-> items[order[p]], count |-> counts[items[order[p]]]]]

\* lines 262-266
non_zero_countries(counts) ==
    LET HasMentions(theme) == IsCountryTheme(theme) /\ counts[theme] > 0
        items == SelectSeq(theme_keys, HasMentions)
        order == StableDescOrder([i \in 1..Len(items) |-> counts[items[i]]])
    IN  [p \in 1..Len(items) |->
            [theme |-> items[order[p]], count |-> counts[items[order[p]]]]]

\* a comment already taken for an earlier country is not taken again
country_specific_comments_once(st, countries) ==
    Flatten([p \in 1..Len(countries) |->
        LET NotTakenYet(c) ==
                \A o \in 1..(p - 1) :
                    \A q \in 1..Len(st.comments[countries[o].theme]) :
                        st.comments[countries[o].theme][q] # c
            kept == SelectSeq(st.comments[countries[p].theme], NotTakenYet)
        IN  [q \in 1..Len(kept) |->
                [country |-> countries[p].theme,
                 text |-> kept[q].text,
                 likes |-> kept[q].likes]]])

\* lines 268-286: the comments of the listed countries, country by country
country_specific_comments(st, countries) ==
    Flatten([p \in 1..Len(countries) |->
        [q \in 1..Len(st.comments[countries[p].theme]) |->
            [country |-> countries[p].theme,
             text |-> st.comments[countries[p].theme][q].text,
             likes |-> st.comments[countries[p].theme][q].likes]]])

\* lines 208-306: the themes section
render_themes(st, df) ==
    LET countries == non_zero_countries(st.counts)
        total_country_mentions ==
            SumSeq([p \in 1..Len(countries) |-> countries[p].count])
        merged == country_specific_comments(st, countries)
        sorted_country_comments == sorted_by_likes(merged)
    IN  [section |-> "themes",
         total_comments |-> Len(df.rows),
         services |-> [p \in 1..Len(service_themes) |->
                          service_entry(st, service_themes[p])],
         countries |-> [p \in 1..Len(countries) |->
                          [theme |-> countries[p].theme,
                           count |-> countries[p].count,
                           sentiment_str |-> st.sentiments[countries[p].theme]]],
         \* lines 289-291: the total line, when it is printed
         total_line |-> IF total_country_mentions > 0
                        THEN <<total_country_mentions>> ELSE <<>>,
         \* lines 294-302: the merged list, when it is printed
         country_comments |->
             IF total_country_mentions > 0 /\ merged # <<>>
             THEN [p \in 1..Len(sorted_country_comments) |->
                     [country |-> sorted_country_comments[p].country,
                      text |-> clean_country_text(sorted_country_comments[p].text)]]
             ELSE <<>>]

-----------------------------------------------------------------------------
(* The steps of a run                                                      *)

\* 2_process_yt_comments.py main(), with comments in the raw file
ProcessComments ==
    /\ pc = "stage2"
    /\ raw # <<>>
    /\ \E tr \in [1..Len(raw) -> BOOLEAN], cl \in [1..Len(raw) -> ClassificationReplies] :
          LET replies == [i \in 1..Len(raw) |->
                             IF tr[i] THEN TranslationReply(raw[i].text)
                             ELSE FailedReply]
          IN  processed' = [exists |-> TRUE,
                            content |-> process_comments(raw, replies, cl)]
    /\ pc' = "stage3"
    /\ UNCHANGED <<raw, comments_df, out_file, error, stdout,
                   idx, theme_counts, theme_comments, theme_sentiments>>
    /\ UNCHANGED otherVars

\* 2_process_yt_comments.py main(), with an empty raw file: df['text'] raises
\* KeyError at line 52, main() catches it at line 96 and no file is saved
ProcessCommentsEmpty ==
    /\ pc = "stage2"
    /\ raw = <<>>
    /\ stdout' = Append(stdout, "An error occurred")
    /\ pc' = "stage3"
    /\ UNCHANGED <<raw, processed, comments_df, out_file, error,
                   idx, theme_counts, theme_comments, theme_sentiments>>
    /\ UNCHANGED otherVars

\* line 310
LoadComments ==
    /\ pc = "stage3"
    /\ comments_df' = load_latest_processed_comments(processed)
    /\ pc' = "main_if"
    /\ UNCHANGED <<raw, processed, out_file, error, stdout,
                   idx, theme_counts, theme_comments, theme_sentiments>>
    /\ UNCHANGED otherVars

\* lines 313-316: the report file is created and opened for writing
OpenReport ==
    /\ pc = "main_if"
    /\ ~comments_df.none /\ ~df_empty(comments_df)
    /\ out_file' = [exists |-> TRUE, content |-> <<>>]
    /\ pc' = "write_sentiment"
    /\ UNCHANGED <<raw, processed, comments_df, error, stdout,
                   idx, theme_counts, theme_comments, theme_sentiments>>
    /\ UNCHANGED otherVars

\* lines 323-324
NoData ==
    /\ pc = "main_if"
    /\ comments_df.none \/ df_empty(comments_df)
    /\ stdout' = Append(stdout, "No comments data available for analysis")
    /\ pc' = "listing"
    /\ UNCHANGED <<raw, processed, comments_df, out_file, error,
                   idx, theme_counts, theme_comments, theme_sentiments>>
    /\ UNCHANGED otherVars

\* line 318
WriteSentiment ==
    /\ pc = "write_sentiment"
    /\ out_file' = [out_file EXCEPT
                       !.content = Append(@, analyse_sentiment_distribution(comments_df))]
    /\ pc' = "analyse_themes"
    /\ UNCHANGED <<raw, processed, comments_df, error, stdout,
                   idx, theme_counts, theme_comments, theme_sentiments>>
    /\ UNCHANGED otherVars

\* line 320 calls analyse_themes: lines 165-172
BeginThemes ==
    /\ pc = "analyse_themes"
    /\ theme_counts' = InitialThemeState.counts
    /\ theme_comments' = InitialThemeState.comments
    /\ theme_sentiments' = InitialThemeState.sentiments
    /\ idx' = 1
    /\ pc' = "themes_loop"
    /\ UNCHANGED <<raw, processed, comments_df, out_file, error, stdout>>
    /\ UNCHANGED otherVars

\* lines 194-206: one iteration of the loop over the comments.  A KeyError
\* leaves the with block of line 316, which closes the file, and ends the run.
ThemesOfRecord ==
    /\ pc = "themes_loop"
    /\ idx <= Len(comments_df.rows)
    /\ LET st == ThemesOfComment(
                    [counts |-> theme_counts, comments |-> theme_comments,
                     sentiments |-> theme_sentiments, raised |-> FALSE],
                    comments_df.rows[idx], 1)
       IN  /\ theme_counts' = st.counts
           /\ theme_comments' = st.comments
           /\ theme_sentiments' = st.sentiments
           /\ IF st.raised
              THEN /\ error' = "KeyError: sentiment"
                   /\ pc' = "raised"
                   /\ idx' = idx
              ELSE /\ error' = error
                   /\ pc' = pc
                   /\ idx' = idx + 1
    /\ UNCHANGED <<raw, processed, comments_df, out_file, stdout>>
    /\ UNCHANGED otherVars

\* lines 208-306 and the write of line 320
WriteThemes ==
    /\ pc = "themes_loop"
    /\ idx > Len(comments_df.rows)
    /\ out_file' = [out_file EXCEPT
                       !.content = Append(@, render_themes(
                           [counts |-> theme_counts, comments |-> theme_comments,
                            sentiments |-> theme_sentiments], comments_df))]
    /\ pc' = "write_top"
    /\ UNCHANGED <<raw, processed, comments_df, error, stdout,
                   idx, theme_counts, theme_comments, theme_sentiments>>
    /\ UNCHANGED otherVars

\* line 322; the with block ends and the file is closed
WriteTopLiked ==
    /\ pc = "write_top"
    /\ out_file' = [out_file EXCEPT
                       !.content = Append(@, analyse_most_liked_comments(
                                                 comments_df, DEFAULT_TOP_N))]
    /\ pc' = "listing"
    /\ UNCHANGED <<raw, processed, comments_df, error, stdout,
                   idx, theme_counts, theme_comments, theme_sentiments>>
    /\ UNCHANGED otherVars

\* lines 327-328: comments_df.sort_values(by='likes') on None raises
\* AttributeError, on a frame without columns KeyError
Listing ==
    /\ pc = "listing"
    /\ IF comments_df.none
       THEN error' = "AttributeError: sort_values" /\ pc' = "raised" /\ stdout' = stdout
       ELSE IF df_empty(comments_df)
       THEN error' = "KeyError: likes" /\ pc' = "raised" /\ stdout' = stdout
       ELSE /\ error' = error
            /\ pc' = "done"
            /\ stdout' = Append(stdout, "Comments sorted by likes (descending):")
    /\ UNCHANGED <<raw, processed, comments_df, out_file,
                   idx, theme_counts, theme_comments, theme_sentiments>>
    /\ UNCHANGED otherVars

-----------------------------------------------------------------------------
(* Inputs of the contains_keywords specification                           *)

MaxMatchLen == 4

MatchAlphabet == {"i", "d", "D", "v", " ", "."}

ExampleTexts ==
    { <<"n","e","e","d"," ","m","y"," ","i","d"," ","p","l","e","a","s","e">>,
      <<"t","h","i","s"," ","i","s"," ","v","a","l","i","d">>,
      <<"v","i","d","e","o">>,
      <<"(","I","D",")","\n","n","o","w">> }

MatchKeywordLists ==
    { <<kw_id>>,
      <<<<"I","D">>>>,
      <<<<"v">>, <<"d"," ","i">>>>,
      <<<<".">>>>,
      <<<<"i",".">>, <<"d","i">>>>,
      <<>> }

IdleMatch ==
    /\ m_pc = "idle"
    /\ m_text = <<>>
    /\ m_keywords = <<>>
    /\ m_result = FALSE

InitMatch ==
    /\ m_text \in SeqsUpTo(MatchAlphabet, MaxMatchLen) \cup ExampleTexts
    /\ m_keywords \in MatchKeywordLists
    /\ m_pc = "call"
    /\ m_result = FALSE

ApplyContainsKeywords ==
    /\ m_pc = "call"
    /\ m_pc' = "returned"
    /\ m_result' = contains_keywords(m_text, m_keywords)
    /\ UNCHANGED <<m_text, m_keywords>>
    /\ UNCHANGED <<pipeVars, topVars, truncVars, fetchVars>>

NextMatch == ApplyContainsKeywords

-----------------------------------------------------------------------------
(* Inputs of the analyse_most_liked_comments specification                 *)

MaxTopRows == 4
MaxLikes == 2
MaxTopN == 3

\* frames of at most MaxTopRows rows; the author of a row names its
\* position in the input, so that a rendered record can be told apart
TopRows ==
    {[i \in 1..Len(likes) |-> [likes |-> likes[i], author |-> i]] :
        likes \in SeqsUpTo(0..MaxLikes, MaxTopRows)}

IdleTop ==
    /\ t_pc = "idle"
    /\ t_df = [none |-> TRUE, rows |-> <<>>]
    /\ t_top_n = 0
    /\ t_out = None

InitTop ==
    /\ t_pc = "call"
    /\ t_df \in {[none |-> TRUE, rows |-> <<>>]}
                \cup {[none |-> FALSE, rows |-> rows] : rows \in TopRows}
    /\ t_top_n \in (0..MaxTopN) \cup {DEFAULT_TOP_N}
    /\ t_out = None

ApplyMostLiked ==
    /\ t_pc = "call"
    /\ t_pc' = "returned"
    /\ t_out' = analyse_most_liked_comments(t_df, t_top_n)
    /\ UNCHANGED <<t_df, t_top_n>>
    /\ UNCHANGED <<pipeVars, matchVars, truncVars, fetchVars>>

NextTop == ApplyMostLiked

-----------------------------------------------------------------------------
(* Inputs of the theme-comment rendering specification                     *)

MaxTextLen == 250

TextPatterns == << <<"a", "b", "\n">>, <<".">>, <<"x", " ">> >>

\* the text of length n that repeats pattern
PatternText(pattern, n) ==
    [i \in 1..n |-> pattern[((i - 1) % Len(pattern)) + 1]]

IdleTrunc ==
    /\ c_pc = "idle"
    /\ c_text = <<>>
    /\ c_service = <<>>
    /\ c_country = <<>>

InitTrunc ==
    /\ c_pc = "call"
    /\ \E n \in 0..MaxTextLen, p \in 1..Len(TextPatterns) :
          c_text = PatternText(TextPatterns[p], n)
    /\ c_service = <<>>
    /\ c_country = <<>>

RenderEntry ==
    /\ c_pc = "call"
    /\ c_pc' = "returned"
    /\ c_service' = clean_service_text(c_text)
    /\ c_country' = clean_country_text(c_text)
    /\ UNCHANGED c_text
    /\ UNCHANGED <<pipeVars, matchVars, topVars, fetchVars>>

NextTrunc == RenderEntry

-----------------------------------------------------------------------------
(* get_video_comments (1_get_yt_comments.py): the paging loop              *)

\* the largest page the loop asks for
PAGE_CAP == 100

\* max_results when the caller does not pass it
DEFAULT_MAX_RESULTS == 200

\* response.get('nextPageToken') of a response without the key
no_token == "None"

\* the page tokens a response may carry: none, an empty one, a real one
PageTokens == {no_token, "", "CDIQAA"}

\* bool(token)
truthy(token) == token \notin {no_token, ""}

\* maxResults of the next request, without the cap of a page
request_maxResults_uncapped(max_results, comments) ==
    max_results - Len(comments)

\* line 62
request_maxResults(max_results, comments) ==
    Min(PAGE_CAP, max_results - Len(comments))

\* comments[:n] for n >= 0
slice_to(comments, n) == SubSeq(comments, 1, Min(n, Len(comments)))

\* lines 70-78: one comment is appended for every item of the response;
\* a comment is named by its position among the items received
extend_with_items(comments, n) ==
    comments \o [k \in 1..n |-> Len(comments) + k]

\* the number of requests a call is followed for
MaxRequests == 3

\* the small values of max_results
MaxSmallResults == 3

FetchMaxResults ==
    (0..MaxSmallResults)
        \cup {PAGE_CAP, PAGE_CAP + 1, DEFAULT_MAX_RESULTS}

\* the numbers of items a response to a request for r items may hold:
\* none, one, a full page, and one more than asked for
ItemCounts(r) == {0, 1, r, r + 1}

IdleFetch ==
    /\ f_pc = "idle"
    /\ f_max_results = 0
    /\ f_comments = <<>>
    /\ f_next_page_token = no_token
    /\ f_requests = <<>>
    /\ f_responses = <<>>
    /\ f_result = <<>>
    /\ f_stdout = <<>>

InitFetch ==
    /\ f_pc = "call"
    /\ f_max_results \in FetchMaxResults
    /\ f_comments = <<>>
    /\ f_next_page_token = no_token
    /\ f_requests = <<>>
    /\ f_responses = <<>>
    /\ f_result = <<>>
    /\ f_stdout = <<>>

\* lines 50-55: the client is built and the locals are set
CreateClient ==
    /\ f_pc = "call"
    /\ f_comments' = <<>>
    /\ f_next_page_token' = no_token
    /\ f_pc' = "while"
    /\ UNCHANGED <<f_max_results, f_requests, f_responses, f_result, f_stdout>>
    /\ UNCHANGED <<pipeVars, matchVars, topVars, truncVars>>

\* lines 57-66: the loop goes on and the next request is issued
IssueRequest ==
    /\ f_pc = "while"
    /\ Len(f_comments) < f_max_results
    /\ Len(f_requests) < MaxRequests
    /\ f_requests' = Append(f_requests,
           [maxResults |-> request_maxResults(f_max_results, f_comments),
            pageToken |-> f_next_page_token])
    /\ f_pc' = "execute"
    /\ UNCHANGED <<f_max_results, f_comments, f_next_page_token,
                   f_responses, f_result, f_stdout>>
    /\ UNCHANGED <<pipeVars, matchVars, topVars, truncVars>>

\* line 57: the loop condition is false
LeaveLoop ==
    /\ f_pc = "while"
    /\ ~(Len(f_comments) < f_max_results)
    /\ f_pc' = "return"
    /\ UNCHANGED <<f_max_results, f_comments, f_next_page_token,
                   f_requests, f_responses, f_result, f_stdout>>
    /\ UNCHANGED <<pipeVars, matchVars, topVars, truncVars>>

\* lines 67-83: the response arrives, its items are appended, its token is
\* kept and the loop breaks or goes on
ReceiveResponse ==
    /\ f_pc = "execute"
    /\ \E n \in ItemCounts(f_requests[Len(f_requests)].maxResults),
          token \in PageTokens :
          LET comments == extend_with_items(f_comments, n)
          IN  /\ f_responses' = Append(f_responses,
                     [items |-> n, nextPageToken |-> token])
              /\ f_comments' = comments
              /\ f_next_page_token' = token
              /\ f_pc' = IF ~truthy(token) \/ Len(comments) >= f_max_results
                         THEN "return" ELSE "while"
    /\ UNCHANGED <<f_max_results, f_requests, f_result, f_stdout>>
    /\ UNCHANGED <<pipeVars, matchVars, topVars, truncVars>>

\* line 85
ReturnComments ==
    /\ f_pc = "return"
    /\ f_result' = slice_to(f_comments, f_max_results)
    /\ f_pc' = "returned"
    /\ UNCHANGED <<f_max_results, f_comments, f_next_page_token,
                   f_requests, f_responses, f_stdout>>
    /\ UNCHANGED <<pipeVars, matchVars, topVars, truncVars>>

\* lines 87-89: request.execute() raises HttpError
HttpErrorRaised ==
    /\ f_pc = "execute"
    /\ f_stdout' = Append(f_stdout, "An HTTP error occurred")
    /\ f_result' = <<>>
    /\ f_pc' = "returned"
    /\ UNCHANGED <<f_max_results, f_comments, f_next_page_token,
                   f_requests, f_responses>>
    /\ UNCHANGED <<pipeVars, matchVars, topVars, truncVars>>

\* lines 90-92: load_api_key or the client raises, or the response read
\* at lines 67-78 lacks a key
ExceptionRaised ==
    /\ f_pc \in {"call", "execute"}
    /\ f_stdout' = Append(f_stdout, "An error occurred")
    /\ f_result' = <<>>
    /\ f_pc' = "returned"
    /\ UNCHANGED <<f_max_results, f_comments, f_next_page_token,
                   f_requests, f_responses>>
    /\ UNCHANGED <<pipeVars, matchVars, topVars, truncVars>>

NextFetch ==
    \/ CreateClient
    \/ IssueRequest
    \/ LeaveLoop
    \/ ReceiveResponse
    \/ ReturnComments
    \/ HttpErrorRaised
    \/ ExceptionRaised

-----------------------------------------------------------------------------
(* The specifications of the single functions                              *)

MatchInit == InitMatch /\ IdlePipe /\ IdleTop /\ IdleTrunc /\ IdleFetch

SpecMatch == MatchInit /\ [][NextMatch]_vars

TopInit == InitTop /\ IdlePipe /\ IdleMatch /\ IdleTrunc /\ IdleFetch

SpecTop == TopInit /\ [][NextTop]_vars

TruncInit == InitTrunc /\ IdlePipe /\ IdleMatch /\ IdleTop /\ IdleFetch

SpecTrunc == TruncInit /\ [][NextTrunc]_vars

FetchInit == InitFetch /\ IdlePipe /\ IdleMatch /\ IdleTop /\ IdleTrunc

SpecFetch == FetchInit /\ [][NextFetch]_vars

-----------------------------------------------------------------------------
(* The pipeline specification                                              *)

Init == InitPipe /\ IdleMatch /\ IdleTop /\ IdleTrunc /\ IdleFetch

Next ==
    \/ ProcessComments
    \/ ProcessCommentsEmpty
    \/ LoadComments
    \/ OpenReport
    \/ NoData
    \/ WriteSentiment
    \/ BeginThemes
    \/ ThemesOfRecord
    \/ WriteThemes
    \/ WriteTopLiked
    \/ Listing

Spec == Init /\ [][Next]_vars

-----------------------------------------------------------------------------
(* C1: contains_keywords is true exactly when some lowercased keyword is   *)
(* one whole token of the lowercased text, a token being either a single   *)
(* punctuation character or a maximal run of characters that are neither   *)
(* whitespace nor punctuation; an occurrence inside a longer token does    *)
(* not match.                                                              *)

IsBreak(c) == c \in Whitespace \/ c \in Range(PUNCT)

\* t[i..j] is one whole token of t
IsTokenAt(t, i, j) ==
    /\ i <= j
    /\ \/ i = j /\ t[i] \in Range(PUNCT)
       \/ /\ \A p \in i..j : ~IsBreak(t[p])
          /\ (i = 1 \/ IsBreak(t[i - 1]))
          /\ (j = Len(t) \/ IsBreak(t[j + 1]))

WholeTokenMatch(text, keywords) ==
    LET t == str_lower(text)
    IN  \E k \in 1..Len(keywords) :
            \E i \in 1..Len(t) : \E j \in i..Len(t) :
                /\ IsTokenAt(t, i, j)
                /\ SubSeq(t, i, j) = str_lower(keywords[k])

C1_WholeTokenMatch ==
    m_pc = "returned" =>
        m_result = WholeTokenMatch(m_text, m_keywords)

\* keyword "id" occurs in the text only inside a longer token and is rejected
C1_Witness ==
    /\ m_pc = "returned"
    /\ m_result = FALSE
    /\ m_keywords = <<kw_id>>
    /\ contains_keywords_substring(m_text, m_keywords)

-----------------------------------------------------------------------------
(* C2: every record the enrichment stage stores carries one of the four    *)
(* sentiment values, whatever the classifier replied, and the analysis     *)
(* never raises on a record's sentiment.                                   *)
C2_SentimentClosed ==
    /\ \A i \in 1..Len(processed.content) :
           processed.content[i].sentiment \in SENTIMENTS
    /\ \A i \in 1..Len(comments_df.rows) :
           comments_df.rows[i].sentiment \in SENTIMENTS
    /\ error # "KeyError: sentiment"

-----------------------------------------------------------------------------
(* C3: in the sentiment section written for a non-empty collection, the    *)
(* Question, Positive, Neutral and Negative counts add up to the total     *)
(* number of comments.                                                     *)
C3_SentimentCountsSum ==
    \A p \in 1..Len(out_file.content) :
        out_file.content[p].section = "sentiment" =>
            LET sec == out_file.content[p]
            IN  sec.question + sec.positive + sec.neutral + sec.negative
                    = sec.total_comments

-----------------------------------------------------------------------------
(* C4: after every record handled by the aggregation loop, the state in    *)
(* which the loop stops included, each theme's count is the sum of the     *)
(* four entries of its sentiment tally.                                    *)
TallySum(tally) ==
    tally[question] + tally[positive_affirmation]
        + tally[neutral_affirmation] + tally[negative_affirmation]

C4_CountEqualsTally ==
    DOMAIN theme_counts = ThemeKeys =>
        \A t \in ThemeKeys : theme_counts[t] = TallySum(theme_sentiments[t])

-----------------------------------------------------------------------------
(* C5: when a run of the analysis stage has ended, the report file holds   *)
(* either all three sections or nothing.                                   *)
C5_AllOrNothing ==
    pc \in {"done", "raised"} =>
        \/ out_file.content = <<>>
        \/ /\ Len(out_file.content) = 3
           /\ out_file.content[1].section = "sentiment"
           /\ out_file.content[2].section = "themes"
           /\ out_file.content[3].section = "top_liked"

-----------------------------------------------------------------------------
(* C6: with an empty or missing record collection the three section        *)
(* functions return the no-data indicator, no report is written and the    *)
(* run ends without an error.                                              *)
C6_EmptyRunNoError ==
    (pc \in {"main_if", "listing", "done", "raised"}
        /\ (comments_df.none \/ df_empty(comments_df))) =>
        /\ analyse_sentiment_distribution(comments_df) = None
        /\ analyse_most_liked_comments(comments_df, DEFAULT_TOP_N) = None
        /\ ~out_file.exists
        /\ error = "none"

-----------------------------------------------------------------------------
(* C7: analyse_most_liked_comments renders min(top_n, number of records)   *)
(* distinct records in order of non-increasing likes, records with equal   *)
(* likes in their input order, and no record left out has more likes than  *)
(* a rendered one.                                                         *)
C7_TopLikedOrder ==
    (t_pc = "returned" /\ t_out.section = "top_liked") =>
        LET e == t_out.entries
            rows == t_df.rows
            rendered == {e[i].comment.author : i \in 1..Len(e)}
        IN  /\ Len(e) = Min(t_top_n, Len(rows))
            /\ \A i \in 1..Len(e) : e[i].comment \in Range(rows)
            /\ Cardinality(rendered) = Len(e)
            /\ \A i, j \in 1..Len(e) :
                   i < j =>
                       /\ e[i].comment.likes >= e[j].comment.likes
                       /\ e[i].comment.likes = e[j].comment.likes
                              => e[i].comment.author < e[j].comment.author
            /\ \A r \in 1..Len(rows) :
                   rows[r].author \notin rendered =>
                       \A i \in 1..Len(e) : rows[r].likes <= e[i].comment.likes

\* a record is left out, two rendered records tie, and the first rendered
\* record is not the first of the input
C7_Witness ==
    /\ t_pc = "returned"
    /\ t_out.section = "top_liked"
    /\ Len(t_out.entries) < Len(t_df.rows)
    /\ Len(t_out.entries) >= 3
    /\ t_out.entries[1].comment.author > 1
    /\ t_out.entries[1].comment.likes = t_out.entries[2].comment.likes
    /\ t_out.entries[2].comment.likes > t_out.entries[3].comment.likes

-----------------------------------------------------------------------------
(* C8, as stated: the ID printed for an entry of the top-liked section is  *)
(* the entry's rank.                                                       *)
C8_IdIsRank ==
    (t_pc = "returned" /\ t_out.section = "top_liked") =>
        \A i \in 1..Len(t_out.entries) :
            t_out.entries[i].id = t_out.entries[i].rank

(* C8, amended: the rank printed for entry i is i, and the ID is the       *)
(* 1-based position of the rendered record in the input collection.        *)
C8_IdIsInputPosition ==
    (t_pc = "returned" /\ t_out.section = "top_liked") =>
        \A i \in 1..Len(t_out.entries) :
            /\ t_out.entries[i].rank = i
            /\ t_out.entries[i].id \in 1..Len(t_df.rows)
            /\ t_df.rows[t_out.entries[i].id] = t_out.entries[i].comment

\* the most liked record is the third of the input: rank 1, ID 3
C8_Witness ==
    /\ t_pc = "returned"
    /\ t_out.section = "top_liked"
    /\ Len(t_out.entries) >= 1
    /\ t_out.entries[1].rank = 1
    /\ t_out.entries[1].id = 3

-----------------------------------------------------------------------------
(* C9: the country part of the themes section lists exactly the country    *)
(* themes with a count above zero, in order of non-increasing count, and   *)
(* country themes with equal counts in the order of the taxonomy.          *)
CountryThemes ==
    {theme_country_sudan, theme_country_yemen, theme_country_saudi_arabia}

ThemeIndex(theme) == CHOOSE k \in 1..Len(THEMES) : THEMES[k].theme = theme

C9_CountryListing ==
    \A p \in 1..Len(out_file.content) :
        out_file.content[p].section = "themes" =>
            LET c == out_file.content[p].countries
            IN  /\ {c[i].theme : i \in 1..Len(c)}
                       = {t \in CountryThemes : theme_counts[t] > 0}
                /\ \A i \in 1..Len(c) : c[i].count = theme_counts[c[i].theme]
                /\ \A i, j \in 1..Len(c) :
                       i < j =>
                           /\ c[i].count >= c[j].count
                           /\ c[i].count = c[j].count
                                  => ThemeIndex(c[i].theme) < ThemeIndex(c[j].theme)

\* Yemen, declared second, is listed first with two mentions; Sudan and
\* Saudi Arabia follow with one mention each, in declaration order
C9_Witness ==
    /\ Len(out_file.content) >= 2
    /\ out_file.content[2].section = "themes"
    /\ Len(out_file.content[2].countries) = 3
    /\ out_file.content[2].countries[1].theme = theme_country_yemen
    /\ out_file.content[2].countries[1].count = 2
    /\ out_file.content[2].countries[2].theme = theme_country_sudan
    /\ out_file.content[2].countries[3].theme = theme_country_saudi_arabia

-----------------------------------------------------------------------------
(* C10: an entry of a theme comment list, in the service lists and in the  *)
(* merged country list, has at most 200 characters: a text of at most 200  *)
(* characters is rendered as it is, newlines turned into spaces, and a     *)
(* longer one as its first 197 characters followed by "...".               *)
NoNewlines(text) ==
    [i \in 1..Len(text) |-> IF text[i] = "\n" THEN " " ELSE text[i]]

RenderedWithin200(text, out) ==
    /\ Len(out) <= 200
    /\ Len(text) <= 200 => out = NoNewlines(text)
    /\ Len(text) > 200 =>
           /\ Len(out) = 200
           /\ \A i \in 1..197 : out[i] = NoNewlines(text)[i]
           /\ \A i \in 198..200 : out[i] = "."

C10_EntryAtMost200 ==
    c_pc = "returned" =>
        /\ RenderedWithin200(c_text, c_service)
        /\ RenderedWithin200(c_text, c_country)

\* the 250-character text with newlines is cut to 200 characters
C10_Witness ==
    /\ c_pc = "returned"
    /\ Len(c_text) = 250
    /\ \E i \in 1..197 : c_text[i] = "\n"
    /\ Len(c_service) = 200
    /\ Len(c_country) = 200
    /\ c_service[197] # "." /\ c_service[198] = "."

-----------------------------------------------------------------------------
(* C11: while the aggregation loop of analyse_themes runs and after it has *)
(* handled every record, each theme's comment list holds, in input order,  *)
(* one {text, likes} entry for every record handled so far whose combined  *)
(* text matches the theme, so its length is the theme's count; a record    *)
(* that matches several themes is in the list of each of them.  A pass     *)
(* that KeyError ends leaves the lists of the records handled until then.  *)
ThemeKeywords(theme) ==
    THEMES[CHOOSE k \in 1..Len(THEMES) : THEMES[k].theme = theme].keywords

\* the {text, likes} entries of the records among the first n rows that
\* match the theme, in input order
RECURSIVE MatchingEntries(_, _, _)
MatchingEntries(rows, n, theme) ==
    IF n = 0 THEN <<>>
    ELSE MatchingEntries(rows, n - 1, theme)
         \o (IF contains_keywords(rows[n].text \o <<" ">> \o rows[n].cleaned_text,
                                  ThemeKeywords(theme))
             THEN <<[text |-> rows[n].text, likes |-> rows[n].likes]>>
             ELSE <<>>)

C11_CommentLists ==
    DOMAIN theme_comments = ThemeKeys =>
        \A t \in ThemeKeys :
            /\ Len(theme_comments[t]) = theme_counts[t]
            /\ pc # "raised" =>
                   theme_comments[t] = MatchingEntries(comments_df.rows, idx - 1, t)
            \* a pass ended by KeyError stops inside record idx
            /\ pc = "raised" =>
                   theme_comments[t] \in
                       {MatchingEntries(comments_df.rows, idx - 1, t),
                        MatchingEntries(comments_df.rows, idx, t)}

\* the pass is over: the first record is in the lists of Sudan and of
\* Yemen, and the list of Yemen holds both records in input order
C11_Witness ==
    /\ pc = "themes_loop"
    /\ Len(comments_df.rows) = 2
    /\ idx = 3
    /\ comments_df.rows[1].text = text_video
    /\ comments_df.rows[2].text = text_yemen
    /\ Len(theme_comments[theme_country_sudan]) = 1
    /\ theme_comments[theme_country_yemen]
           = <<[text |-> text_video, likes |-> 0], [text |-> text_yemen, likes |-> 2]>>

-----------------------------------------------------------------------------
(* C12: in every themes section written, the total of country-tagged       *)
(* comments is the sum of the counts of all country themes and is the      *)
(* number of entries of the merged cross-country list, so a record that    *)
(* mentions k countries is counted and listed k times; the total line and  *)
(* the merged list are both left out exactly when that sum is zero.        *)

CountryMentions ==
    theme_counts[theme_country_sudan] + theme_counts[theme_country_yemen]
        + theme_counts[theme_country_saudi_arabia]

C12_CountryTotal ==
    \A p \in 1..Len(out_file.content) :
        out_file.content[p].section = "themes" =>
            LET section == out_file.content[p]
            IN  /\ CountryMentions > 0 =>
                       /\ section.total_line = <<CountryMentions>>
                       /\ Len(section.country_comments) = CountryMentions
                /\ CountryMentions = 0 =>
                       /\ section.total_line = <<>>
                       /\ section.country_comments = <<>>

\* two records, four country mentions: the total printed and the length of
\* the merged list are both 4
C12_Witness ==
    \E p \in 1..Len(out_file.content) :
        /\ out_file.content[p].section = "themes"
        /\ out_file.content[p].total_comments = 2
        /\ out_file.content[p].total_line = <<4>>
        /\ Len(out_file.content[p].country_comments) = 4

-----------------------------------------------------------------------------
(* C13: whatever pages the API answers with, get_video_comments returns    *)
(* at most max_results comments; every request asks for no more than       *)
(* min(100, max_results - comments collected before it); and no request    *)
(* follows a response without a nextPageToken, nor a response with which   *)
(* the comments collected reach max_results.                               *)

\* the comments collected with the first n responses
RECURSIVE Collected(_)
Collected(n) ==
    IF n = 0 THEN 0 ELSE Collected(n - 1) + f_responses[n].items

C13_Paging ==
    /\ f_pc = "returned" => Len(f_result) <= f_max_results
    /\ \A i \in 1..Len(f_requests) :
           /\ f_requests[i].maxResults <= 100
           /\ f_requests[i].maxResults <= f_max_results - Collected(i - 1)
    /\ \A i \in 1..Len(f_responses) :
           (f_responses[i].nextPageToken = no_token
                \/ Collected(i) >= f_max_results)
               => Len(f_requests) <= i

\* the default call: a full first page with a token, a second request for
\* the 100 comments still wanted, answered with 101, and 200 are returned
C13_Witness ==
    /\ f_pc = "returned"
    /\ f_max_results = DEFAULT_MAX_RESULTS
    /\ Len(f_requests) = 2
    /\ Len(f_responses) = 2
    /\ f_requests[1].maxResults = 100
    /\ f_requests[2].maxResults = 100
    /\ f_responses[1].items = 100
    /\ f_responses[2].items = 101
    /\ Len(f_comments) = 201
    /\ Len(f_result) = 200

=============================================================================
